---------------------------- MODULE Spec2Model ----------------------------
(***************************************************************************)
(* Model of server.py: a Flask payment backend in front of a remote        *)
(* payment processor.  The state is the two sqlite tables (customers,      *)
(* payments), the processor's objects the handlers read and create         *)
(* (customers, payment intents, open checkout sessions), and, per request  *)
(* slot, the handler's position, its local variables, its response, and    *)
(* two history variables the properties are stated with: the calls and     *)
(* writes the request has made, and the tables as they were when it        *)
(* started.  Every database statement (own connection, own commit) and     *)
(* every processor call is one atomic step, so that overlapping requests   *)
(* interleave exactly at those points.  A processor call or a database     *)
(* write may also raise; the caps MaxCust, MaxIntents and MaxPay leave     *)
(* only that outcome once they are reached.  created_at is not modelled.   *)
(***************************************************************************)
EXTENDS Integers, Sequences, FiniteSets, TLC

VARIABLES
    customers,      \* sqlite table customers, in rowid order
    payments,       \* sqlite table payments, in rowid order
    rcust,          \* processor side: customer objects, id = index
    pis,            \* processor side: payment-intent objects, id = index
    open,           \* processor side: payable checkout sessions not yet paid
    WEBHOOK_SECRET, \* TRUE iff STRIPE_WEBHOOK_SECRET is configured
    pc,             \* per request slot: position in the handler
    req,            \* per request slot: the request being handled
    loc,            \* per request slot: the handler's local variables
    calls,          \* per request slot: the processor calls and the table
                    \* writes the request has made, each with its outcome
    resp,           \* per request slot: the response of the request
    pre             \* per request slot: the tables as the request started

vars == <<customers, payments, rcust, pis, open, WEBHOOK_SECRET,
          pc, req, loc, calls, resp, pre>>

---------------------------------------------------------------------------
\* Bounds of the model.
MaxCust == 2
MaxIntents == 1
MaxPay == 2

\* Python None for text values, and for object ids (ids count from 1).
None == "None"
NULL == 0

Procs == {1, 2}
SeqProcs == {1}
Emails == {"a@x", "b@x"}
Amounts == {-100, 0, 500}
PIAmounts == {500}
\* Status of the intent of a completed card checkout.
Statuses == {"succeeded"}
COMPLETED == "checkout.session.completed"
EventTypes == {COMPLETED, "payment_intent.created"}

\* Mutant: only None counts as no value.
Truthy_NotNone(x) == x # None

\* Python truthiness of an optional text / id.
Truthy(x) == x \notin {None, ""}
HasId(x) == x # NULL

---------------------------------------------------------------------------
\* Local store

\* The first row (lowest rowid) with the given email, or 0.
FirstRowByEmail(tbl, email) ==
    IF \E i \in 1..Len(tbl) : tbl[i].email = email
    THEN CHOOSE i \in 1..Len(tbl) :
            /\ tbl[i].email = email
            /\ \A j \in 1..(i - 1) : tbl[j].email # email
    ELSE 0

\* Mutant: the lookup compares another column and finds nothing.
find_customer_by_email_WrongColumn(tbl, email) ==
    0

\* SELECT ... WHERE email = ? ; fetchone()
find_customer_by_email(tbl, email) ==
    FirstRowByEmail(tbl, email)

\* Mutant: INSERT OR REPLACE, the conflicting rows give way to the new one.
save_customer_record_Replace(tbl, internal_id, email, stripe_customer_id) ==
    LET Keeps(row) == /\ row.internal_id # internal_id
                      /\ row.stripe_customer_id # stripe_customer_id
    IN  Append(SelectSeq(tbl, Keeps),
               [internal_id |-> internal_id, email |-> email,
                stripe_customer_id |-> stripe_customer_id])

\* INSERT OR IGNORE under UNIQUE(internal_id), UNIQUE(stripe_customer_id)
save_customer_record(tbl, internal_id, email, stripe_customer_id) ==
    IF \E i \in 1..Len(tbl) :
          \/ tbl[i].internal_id = internal_id
          \/ tbl[i].stripe_customer_id = stripe_customer_id
    THEN tbl
    ELSE Append(tbl, [internal_id |-> internal_id, email |-> email,
                      stripe_customer_id |-> stripe_customer_id])

\* Mutant: the status is written as a fixed text, not copied.
record_payment_FixedStatus(tbl, pi) ==
    Append(tbl, [stripe_pid |-> pi.id, customer_id |-> pi.customer,
                 amount |-> pi.amount, currency |-> pi.currency,
                 status |-> "completed"])

\* Mutant: INSERT OR IGNORE on the remote payment id.
record_payment_Dedup(tbl, pi) ==
    IF \E i \in 1..Len(tbl) : tbl[i].stripe_pid = pi.id
    THEN tbl
    ELSE Append(tbl, [stripe_pid |-> pi.id, customer_id |-> pi.customer,
                      amount |-> pi.amount, currency |-> pi.currency,
                      status |-> pi.status])

\* INSERT INTO payments: pi.get("id"), "customer", "amount", "currency", "status"
record_payment(tbl, pi) ==
    Append(tbl, [stripe_pid |-> pi.id, customer_id |-> pi.customer,
                 amount |-> pi.amount, currency |-> pi.currency,
                 status |-> pi.status])

\* str(uuid.uuid4()): an id in use nowhere.
UsedIds ==
    {customers[i].internal_id : i \in 1..Len(customers)}
      \cup {rcust[i].internal_id : i \in 1..Len(rcust)}
      \cup {loc[p].internal_id : p \in Procs}
      \cup {NULL}
uuid4 == CHOOSE n \in 1..(Cardinality(UsedIds) + 1) : n \notin UsedIds

---------------------------------------------------------------------------
\* Values of the locals before a handler has assigned them.
NoPi == [id |-> NULL, customer |-> NULL, amount |-> 0,
         currency |-> None, status |-> None]
NoCust == [id |-> NULL, email |-> None, internal_id |-> NULL]
NoLoc == [customer_id |-> NULL, internal_id |-> NULL, pi |-> NoPi, cust |-> NoCust]
NoReq == [kind |-> None]
NoResp == [status |-> 0, body |-> None]
NoPre == [customers |-> <<>>, payments |-> <<>>]

Reply(status, body) == [status |-> status, body |-> body]
\* What a call of create_or_get_customer from outside a handler returns.
Returned(customer_id, internal_id) ==
    [status |-> 0, body |-> "returned",
     customer_id |-> customer_id, internal_id |-> internal_id]
\* An exception no handler catches: Flask answers 500 with its own page.
Unhandled == Reply(500, "unhandled")

Call(op, arg, ok) == [op |-> op, arg |-> arg, ok |-> ok]

Init ==
    /\ customers = <<>>
    /\ payments = <<>>
    /\ rcust = <<>>
    /\ pis = <<>>
    /\ open = 0
    /\ WEBHOOK_SECRET \in BOOLEAN
    /\ pc = [p \in Procs |-> "idle"]
    /\ req = [p \in Procs |-> NoReq]
    /\ loc = [p \in Procs |-> NoLoc]
    /\ calls = [p \in Procs |-> <<>>]
    /\ resp = [p \in Procs |-> NoResp]
    /\ pre = [p \in Procs |-> NoPre]

\* Request r arrives at slot p: the handler starts with fresh locals.
Begin(p, r) ==
    /\ pc[p] = "idle"
    /\ req' = [req EXCEPT ![p] = r]
    /\ pre' = [pre EXCEPT ![p] = [customers |-> customers, payments |-> payments]]
    /\ UNCHANGED calls

\* The handler returns (or an exception leaves it) with response r.
Return(p, r) ==
    /\ resp' = [resp EXCEPT ![p] = r]
    /\ loc' = [loc EXCEPT ![p] = NoLoc]
    /\ pc' = [pc EXCEPT ![p] = "done"]

\* The response has been sent: the slot is free for the next request.
Finish(p) ==
    /\ pc[p] = "done"
    /\ pc' = [pc EXCEPT ![p] = "idle"]
    /\ req' = [req EXCEPT ![p] = NoReq]
    /\ calls' = [calls EXCEPT ![p] = <<>>]
    /\ resp' = [resp EXCEPT ![p] = NoResp]
    /\ pre' = [pre EXCEPT ![p] = NoPre]
    /\ UNCHANGED <<customers, payments, rcust, pis, open, WEBHOOK_SECRET, loc>>

Goto(p, label) ==
    /\ pc' = [pc EXCEPT ![p] = label]
    /\ UNCHANGED resp

\* As Goto, for a step that assigns no local.
Skip(p, label) ==
    /\ Goto(p, label)
    /\ UNCHANGED loc

Log(p, op, arg, ok) == calls' = [calls EXCEPT ![p] = Append(@, Call(op, arg, ok))]


SetLoc(p, field, val) == [loc EXCEPT ![p] = [@ EXCEPT ![field] = val]]

\* What no handler step changes.
Config == <<WEBHOOK_SECRET>>

---------------------------------------------------------------------------
\* POST /create-checkout-session

\* Mutant: the amount is passed on as it came.
unit_amount_Raw(amount) == amount

\* "unit_amount": int(amount) if amount > 0 else 0
unit_amount(amount) == IF amount > 0 THEN amount ELSE 0

\* The requests: the amount text parses as an int or not (then amount is
\* not read); recaptcha is what verify_recaptcha does with the token: "pass"
\* (also: no RECAPTCHA_SECRET), "fail", or "error" (requests.post raises).
CheckoutRequests ==
    [kind : {"checkout"}, parses : {TRUE}, amount : Amounts,
     email : Emails \cup {None}, recaptcha : {"pass"}]
      \cup [kind : {"checkout"}, parses : {TRUE}, amount : PIAmounts,
            email : Emails \cup {None}, recaptcha : {"fail", "error"}]
      \cup [kind : {"checkout"}, parses : {FALSE}, amount : {0},
            email : Emails \cup {None}, recaptcha : {"pass"}]

\* data = request.json; amount = int(...); the reCAPTCHA check; if email:
StartCheckout(p) ==
    \E r \in CheckoutRequests :
        /\ Begin(p, r)
        /\ IF ~r.parses \/ r.recaptcha = "error"
           THEN Return(p, Unhandled)
           ELSE IF r.recaptcha = "fail"
                THEN Return(p, Reply(400, "error"))
                ELSE Skip(p, IF Truthy(r.email) THEN "cg_find" ELSE "co_session")
        /\ UNCHANGED <<customers, payments, rcust, pis, open, Config>>

\* A call of create_or_get_customer(email) from outside a handler.
CallRequests == [kind : {"call"}, email : Emails \cup {None, ""}]

StartCall(p) ==
    \E r \in CallRequests :
        /\ Begin(p, r)
        /\ Skip(p, "cg_find")
        /\ UNCHANGED <<customers, payments, rcust, pis, open, Config>>

\* create_or_get_customer: if email: rec = find_customer_by_email(email);
\* if rec: return rec["stripe_customer_id"], rec["internal_id"]
cg_find(p) ==
    /\ pc[p] = "cg_find"
    /\ LET rec == IF Truthy(req[p].email)
                  THEN find_customer_by_email(customers, req[p].email)
                  ELSE 0
       IN  IF rec # 0
           THEN IF req[p].kind = "checkout"
                THEN /\ loc' = [loc EXCEPT ![p] =
                                  [@ EXCEPT !.customer_id = customers[rec].stripe_customer_id,
                                            !.internal_id = customers[rec].internal_id]]
                     /\ Goto(p, "co_session")
                ELSE Return(p, Returned(customers[rec].stripe_customer_id,
                                        customers[rec].internal_id))
           ELSE Skip(p, "cg_create")
    /\ UNCHANGED <<customers, payments, rcust, pis, open, Config, req, calls, pre>>

\* Mutant: a failed Customer.create is swallowed and the insert still runs.
cg_create_Swallow(p) ==
    /\ pc[p] = "cg_create"
    /\ \/ /\ Len(rcust) < MaxCust
          /\ Log(p, "Customer.create", req[p].email, TRUE)
          /\ rcust' = Append(rcust, [email |-> req[p].email, internal_id |-> uuid4])
       \/ /\ Log(p, "Customer.create", req[p].email, FALSE)
          /\ UNCHANGED rcust
    /\ loc' = [loc EXCEPT ![p] =
                  [@ EXCEPT !.customer_id = Len(rcust) + 1,
                            !.internal_id = uuid4]]
    /\ Goto(p, "cg_save")
    /\ UNCHANGED <<customers, payments, pis, open, Config, req, pre>>

\* create_or_get_customer: internal_id = uuid4(); stripe.Customer.create(...)
cg_create(p) ==
    /\ pc[p] = "cg_create"
    /\ \/ /\ Len(rcust) < MaxCust
          /\ Log(p, "Customer.create", req[p].email, TRUE)
          /\ rcust' = Append(rcust, [email |-> req[p].email, internal_id |-> uuid4])
          /\ loc' = [loc EXCEPT ![p] =
                        [@ EXCEPT !.customer_id = Len(rcust) + 1,
                                  !.internal_id = uuid4]]
          /\ Goto(p, "cg_save")
       \/ /\ Log(p, "Customer.create", req[p].email, FALSE)
          /\ UNCHANGED rcust
          /\ Return(p, Unhandled)
    /\ UNCHANGED <<customers, payments, pis, open, Config, req, pre>>

\* create_or_get_customer: save_customer_record(internal_id, email,
\* customer.id); return customer.id, internal_id
cg_save(p) ==
    /\ pc[p] = "cg_save"
    /\ \/ /\ Log(p, "save_customer_record", loc[p].customer_id, TRUE)
          /\ customers' = save_customer_record(customers, loc[p].internal_id,
                                               req[p].email, loc[p].customer_id)
          /\ IF req[p].kind = "checkout"
             THEN Skip(p, "co_session")
             ELSE Return(p, Returned(loc[p].customer_id, loc[p].internal_id))
       \/ /\ Log(p, "save_customer_record", loc[p].customer_id, FALSE)
          /\ UNCHANGED customers
          /\ Return(p, Unhandled)
    /\ UNCHANGED <<payments, rcust, pis, open, Config, req, pre>>

\* The arguments of stripe.checkout.Session.create that vary.
session_args(p) ==
    [customer_email |-> IF HasId(loc[p].customer_id) THEN None ELSE req[p].email,
     unit_amount |-> unit_amount(req[p].amount),
     quantity |-> 1]

\* Mutant: a failed Session.create takes back the mapping of the request.
co_session_Rollback(p) ==
    /\ pc[p] = "co_session"
    /\ \/ /\ Log(p, "Session.create", session_args(p), TRUE)
          /\ IF session_args(p).unit_amount > 0
             THEN /\ open + Len(pis) < MaxIntents
                  /\ open' = open + 1
             ELSE UNCHANGED open
          /\ UNCHANGED customers
          /\ Return(p, Reply(200, "session"))
       \/ /\ Log(p, "Session.create", session_args(p), FALSE)
          /\ UNCHANGED open
          /\ customers' = pre[p].customers
          /\ Return(p, Unhandled)
    /\ UNCHANGED <<payments, rcust, pis, Config, req, pre>>

\* stripe.checkout.Session.create(...); return jsonify(url, id, clientSecret)
co_session(p) ==
    /\ pc[p] = "co_session"
    /\ \/ /\ Log(p, "Session.create", session_args(p), TRUE)
          /\ IF session_args(p).unit_amount > 0
             THEN /\ open + Len(pis) < MaxIntents
                  /\ open' = open + 1
             ELSE UNCHANGED open
          /\ Return(p, Reply(200, "session"))
       \/ /\ Log(p, "Session.create", session_args(p), FALSE)
          /\ UNCHANGED open
          /\ Return(p, Unhandled)
    /\ UNCHANGED <<customers, payments, rcust, pis, Config, req, pre>>

---------------------------------------------------------------------------
\* POST /webhook

Ack == Reply(200, "received")

\* The requests: the body is a JSON event or not (then its fields are not
\* read); verifies: the body verifies against the Stripe-Signature header.
WebhookRequests ==
    [kind : {"webhook"}, wellformed : {TRUE}, verifies : BOOLEAN,
     type : EventTypes, payment_intent : 0..MaxIntents]
      \cup [kind : {"webhook"}, wellformed : {FALSE}, verifies : BOOLEAN,
            type : {None}, payment_intent : {NULL}]

\* payload = request.data; sig = request.headers.get("Stripe-Signature")
StartWebhook(p) ==
    \E r \in WebhookRequests :
        /\ Begin(p, r)
        /\ Skip(p, "wh_verify")
        /\ UNCHANGED <<customers, payments, rcust, pis, open, Config>>

\* try: stripe.Webhook.construct_event(payload, sig, WEBHOOK_SECRET) if a
\* secret is configured, else request.get_json(): TRUE iff neither raises.
construct_event(r) ==
    IF WEBHOOK_SECRET
    THEN r.wellformed /\ r.verifies
    ELSE r.wellformed

\* Mutant: the dispatch does not look at the event type.
wh_verify_AnyType(p) ==
    /\ pc[p] = "wh_verify"
    /\ IF ~construct_event(req[p])
       THEN Return(p, Reply(400, "error"))
       ELSE IF HasId(req[p].payment_intent)
            THEN Skip(p, "wh_retrieve_pi")
            ELSE Return(p, Ack)
    /\ UNCHANGED <<customers, payments, rcust, pis, open, Config, req, calls, pre>>

\* Mutant: the body is parsed without verification, secret or not.
wh_verify_Unverified(p) ==
    /\ pc[p] = "wh_verify"
    /\ IF ~req[p].wellformed
       THEN Return(p, Reply(400, "error"))
       ELSE IF req[p].type = COMPLETED /\ HasId(req[p].payment_intent)
            THEN Skip(p, "wh_retrieve_pi")
            ELSE Return(p, Ack)
    /\ UNCHANGED <<customers, payments, rcust, pis, open, Config, req, calls, pre>>

\* construct_event / get_json, then the dispatch on event["type"]
wh_verify(p) ==
    /\ pc[p] = "wh_verify"
    /\ IF ~construct_event(req[p])
       THEN Return(p, Reply(400, "error"))
       ELSE IF req[p].type = COMPLETED /\ HasId(req[p].payment_intent)
            THEN Skip(p, "wh_retrieve_pi")
            ELSE Return(p, Ack)
    /\ UNCHANGED <<customers, payments, rcust, pis, open, Config, req, calls, pre>>

\* pi = stripe.PaymentIntent.retrieve(session["payment_intent"])
wh_retrieve_pi(p) ==
    /\ pc[p] = "wh_retrieve_pi"
    /\ \/ /\ req[p].payment_intent \in 1..Len(pis)
          /\ Log(p, "PaymentIntent.retrieve", req[p].payment_intent, TRUE)
          /\ loc' = SetLoc(p, "pi", pis[req[p].payment_intent])
          /\ Goto(p, "wh_record")
       \/ /\ Log(p, "PaymentIntent.retrieve", req[p].payment_intent, FALSE)
          /\ Return(p, Unhandled)
    /\ UNCHANGED <<customers, payments, rcust, pis, open, Config, req, pre>>

\* record_payment(pi), then the guard of the customer-sync step, which
\* reads session.get("customer_email") of the payload
wh_record(p) ==
    /\ pc[p] = "wh_record"
    /\ \/ /\ Len(payments) < MaxPay
          /\ Log(p, "record_payment", loc[p].pi.id, TRUE)
          /\ payments' = record_payment(payments, loc[p].pi)
          /\ \E customer_email \in Emails \cup {None} :
               IF Truthy(customer_email) \/ HasId(loc[p].pi.customer)
               THEN IF HasId(loc[p].pi.customer)
                    THEN Skip(p, "wh_retrieve_cust")
                    ELSE Return(p, Ack)
               ELSE Return(p, Ack)
       \/ /\ Log(p, "record_payment", loc[p].pi.id, FALSE)
          /\ UNCHANGED payments
          /\ Return(p, Unhandled)
    /\ UNCHANGED <<customers, rcust, pis, open, Config, req, pre>>

\* try: cust = stripe.Customer.retrieve(pi.get("customer")) ... except: pass
wh_retrieve_cust(p) ==
    /\ pc[p] = "wh_retrieve_cust"
    /\ \/ /\ loc[p].pi.customer \in 1..Len(rcust)
          /\ Log(p, "Customer.retrieve", loc[p].pi.customer, TRUE)
          /\ loc' = SetLoc(p, "cust",
                       [id |-> loc[p].pi.customer,
                        email |-> rcust[loc[p].pi.customer].email,
                        internal_id |-> rcust[loc[p].pi.customer].internal_id])
          /\ Goto(p, "wh_save")
       \/ /\ Log(p, "Customer.retrieve", loc[p].pi.customer, FALSE)
          /\ Return(p, Ack)
    /\ UNCHANGED <<customers, payments, rcust, pis, open, Config, req, pre>>

\* Mutant: the internal id in the metadata is not looked at.
metadata_internal_id_Fresh(cust) == uuid4

\* cust.metadata.get("internal_id", str(uuid.uuid4()))
metadata_internal_id(cust) ==
    IF HasId(cust.internal_id) THEN cust.internal_id ELSE uuid4

\* Mutant: the insert of the mapping is outside the try.
wh_save_Unguarded(p) ==
    /\ pc[p] = "wh_save"
    /\ \/ /\ Log(p, "save_customer_record", loc[p].cust.id, TRUE)
          /\ customers' = save_customer_record(customers,
                             metadata_internal_id(loc[p].cust),
                             loc[p].cust.email, loc[p].cust.id)
          /\ Return(p, Ack)
       \/ /\ Log(p, "save_customer_record", loc[p].cust.id, FALSE)
          /\ UNCHANGED customers
          /\ Return(p, Unhandled)
    /\ UNCHANGED <<payments, rcust, pis, open, Config, req, pre>>

\* try: save_customer_record(..., cust.email, cust.id) except: pass
wh_save(p) ==
    /\ pc[p] = "wh_save"
    /\ \/ /\ Log(p, "save_customer_record", loc[p].cust.id, TRUE)
          /\ customers' = save_customer_record(customers,
                             metadata_internal_id(loc[p].cust),
                             loc[p].cust.email, loc[p].cust.id)
       \/ /\ Log(p, "save_customer_record", loc[p].cust.id, FALSE)
          /\ UNCHANGED customers
    /\ Return(p, Ack)
    /\ UNCHANGED <<payments, rcust, pis, open, Config, req, pre>>

---------------------------------------------------------------------------
\* The processor's hosted checkout page: the payer pays an open session.
\* The handler creates its sessions without a customer, so the processor
\* may create a customer of its own from the email the payer enters.
HostedCheckoutCompletes ==
    /\ open > 0
    /\ open' = open - 1
    /\ \E email \in Emails, amount \in PIAmounts,
          status \in Statuses, withCustomer \in BOOLEAN :
          IF withCustomer
          THEN /\ Len(rcust) < MaxCust
               /\ rcust' = Append(rcust, [email |-> email, internal_id |-> NULL])
               /\ pis' = Append(pis, [id |-> Len(pis) + 1, customer |-> Len(rcust) + 1,
                                      amount |-> amount, currency |-> "usd",
                                      status |-> status])
          ELSE /\ UNCHANGED rcust
               /\ pis' = Append(pis, [id |-> Len(pis) + 1, customer |-> NULL,
                                      amount |-> amount, currency |-> "usd",
                                      status |-> status])
    /\ UNCHANGED <<customers, payments, Config, pc, req, loc, calls, resp, pre>>

---------------------------------------------------------------------------
\* The admin routes

\* ADMIN_TOKEN = os.getenv("ADMIN_TOKEN", "change_this_admin_token")
ADMIN_TOKEN == "change_this_admin_token"

\* The x-admin-token header and the admin_token query argument of a request.
ByHeader == {[header |-> ADMIN_TOKEN, query |-> None]}
Authorized == ByHeader \cup {[header |-> "", query |-> ADMIN_TOKEN]}
Unauthorized ==
    {[header |-> None, query |-> None],
     [header |-> "", query |-> ""],
     [header |-> "wrong", query |-> ADMIN_TOKEN]}

\* Mutant: only a missing token is refused.
require_admin_AnyToken(cred) ==
    LET token == IF Truthy(cred.header) THEN cred.header ELSE cred.query
    IN  Truthy(token)

\* token = header or query argument; abort(401) if not token or
\* token != ADMIN_TOKEN.  TRUE iff the request passes.
require_admin(cred) ==
    LET token == IF Truthy(cred.header) THEN cred.header ELSE cred.query
    IN  ~(~Truthy(token) \/ token # ADMIN_TOKEN)

\* abort(401): Flask's own 401 page.
Aborted401 == Reply(401, "unauthorized")

\* GET /admin/customers
ListRequests ==
    [kind : {"admin_customers"}, cred : Authorized \cup Unauthorized]

StartList(p) ==
    \E r \in ListRequests :
        /\ Begin(p, r)
        /\ IF ~require_admin(r.cred)
           THEN Return(p, Aborted401)
           ELSE Skip(p, "al_select")
        /\ UNCHANGED <<customers, payments, rcust, pis, open, Config>>

\* SELECT ... FROM customers; return jsonify({"customers": customers})
al_select(p) ==
    /\ pc[p] = "al_select"
    /\ Return(p, [status |-> 200, body |-> "customers",
                  data |-> {customers[i] : i \in 1..Len(customers)}])
    /\ UNCHANGED <<customers, payments, rcust, pis, open, Config, req, calls, pre>>

\* POST /admin/charge.  customerId NULL: the payload has none; parses: the
\* amount text parses as an int (a payload without amount has amount 0).
ChargeRequests ==
    [kind : {"admin_charge"}, cred : ByHeader, customerId : 0..MaxCust,
     parses : {TRUE}, amount : Amounts]
      \cup [kind : {"admin_charge"}, cred : ByHeader, customerId : {NULL, 1},
            parses : {FALSE}, amount : {0}]
      \cup [kind : {"admin_charge"}, cred : Unauthorized, customerId : {NULL, 1},
            parses : {TRUE}, amount : PIAmounts]
      \cup [kind : {"admin_charge"}, cred : Unauthorized, customerId : {1},
            parses : {FALSE}, amount : {0}]

\* Status of the intent a create-and-confirm request returns.
ChargeStatuses == {"succeeded", "requires_payment_method"}

\* Mutant: the validation of the payload is left to the processor.
StartCharge_NoValidation(p) ==
    \E r \in ChargeRequests :
        /\ Begin(p, r)
        /\ IF ~require_admin(r.cred)
           THEN Return(p, Aborted401)
           ELSE IF ~r.parses
                THEN Return(p, Unhandled)
                ELSE Skip(p, "ac_list_pm")
        /\ UNCHANGED <<customers, payments, rcust, pis, open, Config>>

\* require_admin(); amount = int(payload.get("amount", 0));
\* if not customer_id or amount <= 0: return ..., 400
StartCharge(p) ==
    \E r \in ChargeRequests :
        /\ Begin(p, r)
        /\ IF ~require_admin(r.cred)
           THEN Return(p, Aborted401)
           ELSE IF ~r.parses
                THEN Return(p, Unhandled)
                ELSE IF ~HasId(r.customerId) \/ r.amount <= 0
                     THEN Return(p, Reply(400, "error"))
                     ELSE Skip(p, "ac_list_pm")
        /\ UNCHANGED <<customers, payments, rcust, pis, open, Config>>

\* len(pm_list.data), as logged with the call (limit=1: at most one).
pm_list(has_card) == IF has_card THEN 1 ELSE 0

\* Mutant: an empty list of payment methods is not looked at.
list_pm_NoCheck(p, here, next) ==
    /\ pc[p] = here
    /\ \/ /\ req[p].customerId \in 1..Len(rcust)
          /\ \E has_card \in BOOLEAN :
               /\ Log(p, "PaymentMethod.list", pm_list(has_card), TRUE)
               /\ Skip(p, next)
       \/ /\ Log(p, "PaymentMethod.list", pm_list(FALSE), FALSE)
          /\ Return(p, Unhandled)
    /\ UNCHANGED <<customers, payments, rcust, pis, open, Config, req, pre>>

\* pm_list = stripe.PaymentMethod.list(customer=..., type="card", limit=1)
\* if not pm_list.data: return ..., 400.  The call is in no try; whether a
\* customer of the processor has a saved card is the processor's to say.
list_pm(p, here, next) ==
    /\ pc[p] = here
    /\ \/ /\ req[p].customerId \in 1..Len(rcust)
          /\ \E has_card \in BOOLEAN :
               /\ Log(p, "PaymentMethod.list", pm_list(has_card), TRUE)
               /\ IF has_card
                  THEN Skip(p, next)
                  ELSE Return(p, Reply(400, "error"))
       \/ /\ Log(p, "PaymentMethod.list", pm_list(FALSE), FALSE)
          /\ Return(p, Unhandled)
    /\ UNCHANGED <<customers, payments, rcust, pis, open, Config, req, pre>>

ac_list_pm(p) == list_pm(p, "ac_list_pm", "ac_create")

\* The arguments of stripe.PaymentIntent.create that vary.
charge_args(p) == [customer |-> req[p].customerId, amount |-> req[p].amount]

\* Mutant: only an intent that succeeded goes on to record_payment.
ac_create_OnlySucceeded(p) ==
    /\ pc[p] = "ac_create"
    /\ \/ /\ open + Len(pis) < MaxIntents
          /\ \E status \in ChargeStatuses :
               LET pi == [id |-> Len(pis) + 1, customer |-> req[p].customerId,
                          amount |-> req[p].amount, currency |-> "usd",
                          status |-> status]
               IN  /\ Log(p, "PaymentIntent.create", charge_args(p), TRUE)
                   /\ pis' = Append(pis, pi)
                   /\ IF status = "succeeded"
                      THEN /\ loc' = SetLoc(p, "pi", pi)
                           /\ Goto(p, "ac_record")
                      ELSE Return(p, Reply(200, "paymentIntent"))
       \/ /\ Log(p, "PaymentIntent.create", charge_args(p), FALSE)
          /\ UNCHANGED pis
          /\ Return(p, Reply(402, "card_error"))
       \/ /\ Log(p, "PaymentIntent.create", charge_args(p), FALSE)
          /\ UNCHANGED pis
          /\ Return(p, Reply(500, "error"))
    /\ UNCHANGED <<customers, payments, rcust, open, Config, req, pre>>

\* try: pi = stripe.PaymentIntent.create(..., off_session=True, confirm=True)
\* except stripe.error.CardError: ..., 402   except Exception: ..., 500
ac_create(p) ==
    /\ pc[p] = "ac_create"
    /\ \/ /\ open + Len(pis) < MaxIntents
          /\ \E status \in ChargeStatuses :
               LET pi == [id |-> Len(pis) + 1, customer |-> req[p].customerId,
                          amount |-> req[p].amount, currency |-> "usd",
                          status |-> status]
               IN  /\ Log(p, "PaymentIntent.create", charge_args(p), TRUE)
                   /\ pis' = Append(pis, pi)
                   /\ loc' = SetLoc(p, "pi", pi)
                   /\ Goto(p, "ac_record")
       \/ /\ Log(p, "PaymentIntent.create", charge_args(p), FALSE)
          /\ UNCHANGED pis
          /\ Return(p, Reply(402, "card_error"))
       \/ /\ Log(p, "PaymentIntent.create", charge_args(p), FALSE)
          /\ UNCHANGED pis
          /\ Return(p, Reply(500, "error"))
    /\ UNCHANGED <<customers, payments, rcust, open, Config, req, pre>>

\* record_payment(pi); return jsonify({"paymentIntent": pi}), both still in
\* the try: a failed insert goes to except Exception
ac_record(p) ==
    /\ pc[p] = "ac_record"
    /\ \/ /\ Len(payments) < MaxPay
          /\ Log(p, "record_payment", loc[p].pi.id, TRUE)
          /\ payments' = record_payment(payments, loc[p].pi)
          /\ Return(p, Reply(200, "paymentIntent"))
       \/ /\ Log(p, "record_payment", loc[p].pi.id, FALSE)
          /\ UNCHANGED payments
          /\ Return(p, Reply(500, "error"))
    /\ UNCHANGED <<customers, rcust, pis, open, Config, req, pre>>

\* POST /admin/create-subscription.  priceId None: the payload has none.
SubscriptionRequests ==
    [kind : {"admin_subscription"}, cred : ByHeader, customerId : 0..MaxCust,
     priceId : {None, "price_1"}]
      \cup [kind : {"admin_subscription"}, cred : Unauthorized,
            customerId : {NULL, 1}, priceId : {"price_1"}]

\* require_admin(); if not customer_id or not price_id: return ..., 400
StartSubscription(p) ==
    \E r \in SubscriptionRequests :
        /\ Begin(p, r)
        /\ IF ~require_admin(r.cred)
           THEN Return(p, Aborted401)
           ELSE IF ~HasId(r.customerId) \/ ~Truthy(r.priceId)
                THEN Return(p, Reply(400, "error"))
                ELSE Skip(p, "as_list_pm")
        /\ UNCHANGED <<customers, payments, rcust, pis, open, Config>>

as_list_pm(p) == list_pm(p, "as_list_pm", "as_create")

\* try: sub = stripe.Subscription.create(...); return jsonify(...)
\* except Exception: ..., 500.  No handler reads a subscription back, so
\* the processor's subscriptions are not part of the state.
as_create(p) ==
    /\ pc[p] = "as_create"
    /\ \/ /\ Log(p, "Subscription.create", req[p].customerId, TRUE)
          /\ Return(p, Reply(200, "subscription"))
       \/ /\ Log(p, "Subscription.create", req[p].customerId, FALSE)
          /\ Return(p, Reply(500, "error"))
    /\ UNCHANGED <<customers, payments, rcust, pis, open, Config, req, pre>>

---------------------------------------------------------------------------
Checkout(p) ==
    \/ StartCheckout(p)
    \/ cg_find(p)
    \/ cg_create(p)
    \/ cg_save(p)
    \/ co_session(p)
    \/ Finish(p)

Webhook(p) ==
    \/ StartWebhook(p)
    \/ wh_verify(p)
    \/ wh_retrieve_pi(p)
    \/ wh_record(p)
    \/ wh_retrieve_cust(p)
    \/ wh_save(p)

Charge(p) ==
    \/ StartCharge(p)
    \/ ac_list_pm(p)
    \/ ac_create(p)
    \/ ac_record(p)

Admin(p) ==
    \/ StartList(p)
    \/ al_select(p)
    \/ Charge(p)
    \/ StartSubscription(p)
    \/ as_list_pm(p)
    \/ as_create(p)

\* Requests handled one after the other.
NextSeq == (\E p \in SeqProcs : Checkout(p) \/ Webhook(p)) \/ HostedCheckoutCompletes
Spec == Init /\ [][NextSeq]_vars

\* Checkout requests that overlap (they do not read WEBHOOK_SECRET).
InitConc == Init /\ ~WEBHOOK_SECRET
NextConc == \E p \in Procs : Checkout(p)
SpecConc == InitConc /\ [][NextConc]_vars

\* The same with the admin routes.
NextAll == NextSeq \/ \E p \in SeqProcs : Admin(p)
SpecAll == Init /\ [][NextAll]_vars

\* Calls of create_or_get_customer alone, with and without an email, that
\* may overlap.
NextCall ==
    \E p \in Procs :
        StartCall(p) \/ cg_find(p) \/ cg_create(p) \/ cg_save(p) \/ Finish(p)
SpecCall == InitConc /\ [][NextCall]_vars

\* A request that gets as far as its first call or insert; the others are
\* answered without touching the tables or the processor.
Served(r) ==
    \/ r.kind = None
    \/ r.kind = "checkout" /\ r.parses /\ r.recaptcha = "pass"
    \/ r.kind = "webhook" /\ r.wellformed /\ r.verifies
                          /\ r.type = COMPLETED /\ HasId(r.payment_intent)
    \/ r.kind = "admin_charge" /\ r.cred \in ByHeader /\ r.parses
                               /\ HasId(r.customerId) /\ r.amount > 0

\* The steps of the handlers after the arrival of the request.
CheckoutSteps(p) == cg_find(p) \/ cg_create(p) \/ cg_save(p) \/ co_session(p)
WebhookSteps(p) ==
    wh_verify(p) \/ wh_retrieve_pi(p) \/ wh_record(p) \/ wh_retrieve_cust(p) \/ wh_save(p)
ChargeSteps(p) == ac_list_pm(p) \/ ac_create(p) \/ ac_record(p)

\* Checkout, webhook and admin charge requests that are served, one request
\* at a time.
NextSync ==
    \/ \E p \in SeqProcs :
          \/ (StartCheckout(p) \/ StartWebhook(p) \/ StartCharge(p)) /\ Served(req'[p])
          \/ CheckoutSteps(p) \/ WebhookSteps(p) \/ ChargeSteps(p)
          \/ Finish(p)
    \/ HostedCheckoutCompletes
SpecSync == InitConc /\ [][NextSync]_vars

\* Checkout requests that overlap with webhook and admin charge requests,
\* each slot serving one request after the other.
NextMix ==
    \/ StartCheckout(1) /\ Served(req'[1])
    \/ CheckoutSteps(1) \/ Finish(1)
    \/ (StartWebhook(2) \/ StartCharge(2)) /\ Served(req'[2])
    \/ WebhookSteps(2) \/ ChargeSteps(2) \/ Finish(2)
    \/ HostedCheckoutCompletes
SpecMix == InitConc /\ [][NextMix]_vars

\* The admin routes, after checkout requests that created customers.
NextAdmin == \E p \in SeqProcs : Checkout(p) \/ Admin(p)
SpecAdmin == InitConc /\ [][NextAdmin]_vars

---------------------------------------------------------------------------
\* Vocabulary of the properties.

ProcessorOps ==
    {"Customer.create", "Session.create", "PaymentIntent.retrieve", "Customer.retrieve",
     "PaymentMethod.list", "PaymentIntent.create", "Subscription.create"}

\* The request at slot p has made a call of op with outcome ok.
Made(p, op, ok) ==
    \E i \in 1..Len(calls[p]) : calls[p][i].op = op /\ calls[p][i].ok = ok

NumCalls(p, op) ==
    Cardinality({i \in 1..Len(calls[p]) : calls[p][i].op = op})

TablesUnchanged(p) ==
    /\ customers = pre[p].customers
    /\ payments = pre[p].payments

\* The payments row that states payment intent pi.
RowOf(pi) ==
    [stripe_pid |-> pi.id, customer_id |-> pi.customer, amount |-> pi.amount,
     currency |-> pi.currency, status |-> pi.status]

\* create_or_get_customer(email) has returned to create_checkout_session.
Reconciled(p) ==
    /\ req[p].kind = "checkout"
    /\ Truthy(req[p].email)
    /\ pc[p] = "co_session"

\* A webhook request that got past construct_event / get_json.
Verified(p) ==
    /\ req[p].kind = "webhook"
    /\ pc[p] # "wh_verify"
    /\ req[p].wellformed
    /\ ~WEBHOOK_SECRET \/ req[p].verifies

\* ... and is a completed checkout that carries a payment intent.
CompletedWithIntent(p) ==
    /\ Verified(p)
    /\ req[p].type = COMPLETED
    /\ HasId(req[p].payment_intent)

---------------------------------------------------------------------------
\* C1: sequential reconciliation is idempotent per email.  When
\* create_or_get_customer(E) returns for an email E that had no row, it has
\* made exactly one Customer.create call and the table is the old table plus
\* exactly one row, the returned pair under E; when E had a row, it has made
\* no Customer.create call, the table is unchanged and the returned pair is
\* that of E's first row.  In both cases the returned pair is that of E's
\* first row in the table, and (second conjunct) the first row of an email,
\* once there, stays the same row with the same content: so every later
\* call returns the identical pair.
C1_Returned ==
    \A p \in Procs : Reconciled(p) =>
        LET E == req[p].email
            old == FirstRowByEmail(pre[p].customers, E)
            now == FirstRowByEmail(customers, E)
        IN  /\ now # 0
            /\ customers[now].stripe_customer_id = loc[p].customer_id
            /\ customers[now].internal_id = loc[p].internal_id
            /\ IF old = 0
               THEN /\ NumCalls(p, "Customer.create") = 1
                    /\ customers = Append(pre[p].customers,
                                     [internal_id |-> loc[p].internal_id, email |-> E,
                                      stripe_customer_id |-> loc[p].customer_id])
               ELSE /\ NumCalls(p, "Customer.create") = 0
                    /\ customers = pre[p].customers
                    /\ now = old

C1_FirstRowStays ==
    \A E \in Emails :
        LET r == FirstRowByEmail(customers, E)
        IN  r # 0 => /\ FirstRowByEmail(customers', E) = r
                     /\ customers'[r] = customers[r]

\* C1: both parts together: what a reconciliation returns and adds, and
\* that the row it returns from stays as it is.
C1_Idempotent == []C1_Returned /\ [][C1_FirstRowStays]_vars

\* A second reconciliation of an email returns the pair an earlier
\* reconciliation created.
C1_Witness ==
    /\ Reconciled(1)
    /\ LET old == FirstRowByEmail(pre[1].customers, req[1].email)
       IN  /\ old # 0
           /\ rcust[customers[old].stripe_customer_id].internal_id
                 = customers[old].internal_id

---------------------------------------------------------------------------
\* C2: when two reconciliations of the same unseen email overlap, both
\* create a remote customer and both run their insert without error, then
\* after both have finished the customers table holds only one mapping for
\* that email (the second writer's insert is dropped).
C2_SecondInsertDropped ==
    \A p, q \in Procs :
        (/\ p # q
         /\ pc[p] = "done" /\ pc[q] = "done"
         /\ req[p].kind = "checkout" /\ req[q].kind = "checkout"
         /\ req[p].email = req[q].email
         /\ Made(p, "Customer.create", TRUE) /\ Made(q, "Customer.create", TRUE)
         /\ Made(p, "save_customer_record", TRUE)
         /\ Made(q, "save_customer_record", TRUE)
         /\ FirstRowByEmail(pre[p].customers, req[p].email) = 0
         /\ FirstRowByEmail(pre[q].customers, req[q].email) = 0)
        => Cardinality({i \in 1..Len(customers) :
                           customers[i].email = req[p].email}) = 1

---------------------------------------------------------------------------
\* C3: with requests handled one after the other, the customers table holds
\* at most one row for any email.
C3_OneRowPerEmail ==
    \A E \in Emails :
        Cardinality({i \in 1..Len(customers) : customers[i].email = E}) <= 1

---------------------------------------------------------------------------
\* C4: a checkout request whose Customer.create call failed has failed as a
\* whole (the exception leaves the handler) and has left the customers table
\* as it was; a row is written by reconciliation only after a successful
\* Customer.create of the same request, and every row's remote customer id
\* is that of a customer the processor holds.
C4_NoPartialRecord ==
    /\ \A p \in Procs :
          (req[p].kind = "checkout" /\ Made(p, "Customer.create", FALSE)) =>
              /\ pc[p] = "done"
              /\ resp[p] = Unhandled
              /\ ~Made(p, "save_customer_record", TRUE)
              /\ customers = pre[p].customers
    /\ \A p \in Procs :
          (req[p].kind = "checkout" /\ Made(p, "save_customer_record", TRUE)) =>
              /\ calls[p][1].op = "Customer.create"
              /\ calls[p][1].ok
    /\ \A i \in 1..Len(customers) :
          customers[i].stripe_customer_id \in 1..Len(rcust)

\* A failed Customer.create for an email, with rows of other requests in the
\* table.
C4_Witness ==
    /\ req[1].kind = "checkout"
    /\ Made(1, "Customer.create", FALSE)
    /\ Len(customers) > 0

---------------------------------------------------------------------------
\* C5: a completed-checkout webhook whose payment-intent fetch succeeded and
\* that returned normally has appended exactly one payments row, and the
\* row's payment id, customer, amount, currency and status are those of the
\* payment intent the processor holds; such a webhook that did not return
\* normally (the insert raised) has appended none.
C5_PaymentFromIntent ==
    \A p \in Procs :
        (/\ pc[p] = "done"
         /\ CompletedWithIntent(p)
         /\ Made(p, "PaymentIntent.retrieve", TRUE)) =>
            IF resp[p] = Ack
            THEN payments = Append(pre[p].payments, RowOf(pis[req[p].payment_intent]))
            ELSE payments = pre[p].payments

C5_Witness ==
    /\ pc[1] = "done"
    /\ CompletedWithIntent(1)
    /\ resp[1] = Ack
    /\ Len(payments) = Len(pre[1].payments) + 1
    /\ HasId(payments[Len(payments)].customer_id)

---------------------------------------------------------------------------
\* C6: payment recording is append-only and does not de-duplicate.  Every
\* acknowledged delivery of a completed-checkout event with a payment intent
\* adds one row with that intent's id, whether or not the table already
\* holds rows with that id (so n deliveries leave n rows), and no step
\* changes or removes a row the payments table holds.
C6_Delivered ==
    \A p \in Procs :
        (pc[p] = "done" /\ CompletedWithIntent(p) /\ resp[p] = Ack) =>
            /\ Len(payments) = Len(pre[p].payments) + 1
            /\ payments[Len(payments)].stripe_pid = req[p].payment_intent

C6_RowsStay ==
    /\ Len(payments') >= Len(payments)
    /\ \A i \in 1..Len(payments) : payments'[i] = payments[i]

\* C6: both parts together: a row per acknowledged delivery, and rows
\* that are never changed or removed.
C6_AppendOnly == []C6_Delivered /\ [][C6_RowsStay]_vars

\* The same event delivered twice: two rows with one payment id.
C6_Witness ==
    /\ pc[1] = "done"
    /\ CompletedWithIntent(1)
    /\ resp[1] = Ack
    /\ Len(payments) = 2
    /\ payments[1].stripe_pid = payments[2].stripe_pid

---------------------------------------------------------------------------
\* C7: a verified webhook whose type is not checkout.session.completed is
\* acknowledged, has made no processor call (and no table write), and has
\* left both tables as they were.
C7_OtherTypesNoEffect ==
    \A p \in Procs :
        (Verified(p) /\ req[p].type # COMPLETED) =>
            /\ pc[p] = "done"
            /\ resp[p] = Ack
            /\ calls[p] = <<>>
            /\ TablesUnchanged(p)

\* Such an event that even names an existing payment intent.
C7_Witness ==
    /\ Verified(1)
    /\ req[1].type # COMPLETED
    /\ req[1].payment_intent \in 1..Len(pis)

---------------------------------------------------------------------------
\* C8: with a signing secret configured, a webhook request that does not
\* verify is answered 400 with an error, is not dispatched, has made no
\* processor call, and has left both tables as they were, whatever type and
\* payment intent its body names.
C8_RejectUnverified ==
    \A p \in Procs :
        (/\ req[p].kind = "webhook"
         /\ pc[p] # "wh_verify"
         /\ WEBHOOK_SECRET
         /\ ~req[p].verifies) =>
            /\ pc[p] = "done"
            /\ resp[p] = Reply(400, "error")
            /\ calls[p] = <<>>
            /\ TablesUnchanged(p)

\* A forged completed-checkout event that names an existing payment intent.
C8_Witness ==
    /\ req[1].kind = "webhook"
    /\ pc[1] = "done"
    /\ WEBHOOK_SECRET
    /\ ~req[1].verifies
    /\ req[1].type = COMPLETED
    /\ req[1].payment_intent \in 1..Len(pis)

---------------------------------------------------------------------------
\* C9: every webhook request that got past verification is answered with
\* the positive acknowledgement, whatever fails during dispatch.
C9_AlwaysAcknowledged ==
    \A p \in Procs :
        (Verified(p) /\ pc[p] = "done") => resp[p] = Ack

---------------------------------------------------------------------------
\* C10: when the customer-sync step of the webhook fails (Customer.retrieve
\* or the insert of the mapping raises), the payment row was written before
\* it and stays, the step has added no customers row, and the webhook is
\* acknowledged.
SyncFailed(p) ==
    /\ req[p].kind = "webhook"
    /\ \/ Made(p, "Customer.retrieve", FALSE)
       \/ Made(p, "save_customer_record", FALSE)

C10_SyncFailureSwallowed ==
    \A p \in Procs :
        SyncFailed(p) =>
            /\ pc[p] = "done"
            /\ resp[p] = Ack
            /\ calls[p][2].op = "record_payment" /\ calls[p][2].ok
            /\ \A i \in 1..2 : calls[p][i].op \notin {"Customer.retrieve", "save_customer_record"}
            /\ payments = Append(pre[p].payments, RowOf(pis[req[p].payment_intent]))
            /\ customers = pre[p].customers

\* The insert of the mapping failed.
C10_Witness ==
    /\ pc[1] = "done"
    /\ req[1].kind = "webhook"
    /\ Made(1, "save_customer_record", FALSE)

---------------------------------------------------------------------------
\* An admin charge that has answered.
ChargeDone(p) ==
    /\ req[p].kind = "admin_charge"
    /\ pc[p] = "done"

\* C11: an admin charge appends a payments row exactly when its
\* create-and-confirm request returned an intent: then record_payment is
\* called whatever status the intent reports, and the row it appends states
\* that intent (customer and amount of the request, the reported status) and
\* the answer is the intent; when the request raised, no row is appended and
\* the answer is card_error with 402 or error with 500.  A row is appended
\* only in the first case.
C11_RowIffIntentReturned ==
    \A p \in Procs : ChargeDone(p) =>
        /\ Made(p, "PaymentIntent.create", TRUE) =>
              /\ Len(calls[p]) = 3
              /\ calls[p][3].op = "record_payment"
              /\ calls[p][3].arg \in 1..Len(pis)
              /\ pis[calls[p][3].arg].customer = req[p].customerId
              /\ pis[calls[p][3].arg].amount = req[p].amount
              /\ IF calls[p][3].ok
                 THEN /\ payments = Append(pre[p].payments, RowOf(pis[calls[p][3].arg]))
                      /\ resp[p] = Reply(200, "paymentIntent")
                 ELSE /\ payments = pre[p].payments
                      /\ resp[p] = Reply(500, "error")
        /\ Made(p, "PaymentIntent.create", FALSE) =>
              /\ NumCalls(p, "record_payment") = 0
              /\ payments = pre[p].payments
              /\ resp[p] \in {Reply(402, "card_error"), Reply(500, "error")}
        /\ payments # pre[p].payments => Made(p, "PaymentIntent.create", TRUE)

\* A returned intent that did not succeed has been recorded.
C11_Witness ==
    /\ ChargeDone(1)
    /\ Made(1, "record_payment", TRUE)
    /\ payments # <<>>
    /\ payments[Len(payments)].status = "requires_payment_method"
    /\ resp[1] = Reply(200, "paymentIntent")

---------------------------------------------------------------------------
\* C12: an authorized admin charge whose payload has no customerId, or an
\* (integer) amount that is zero or negative, is answered 400 with an error
\* before any processor call, and leaves both tables as they were.
C12_InvalidChargeRejected ==
    \A p \in Procs :
        (/\ req[p].kind = "admin_charge"
         /\ req[p].cred \in Authorized
         /\ req[p].parses
         /\ req[p].customerId = NULL \/ req[p].amount <= 0) =>
            /\ pc[p] = "done"
            /\ resp[p] = Reply(400, "error")
            /\ calls[p] = <<>>
            /\ TablesUnchanged(p)

\* A negative amount for a customer the processor knows, the table not empty.
C12_Witness ==
    /\ ChargeDone(1)
    /\ req[1].cred \in Authorized
    /\ req[1].parses
    /\ req[1].customerId \in 1..Len(rcust)
    /\ req[1].amount < 0
    /\ customers # <<>>

---------------------------------------------------------------------------
\* The processor has answered the request's PaymentMethod.list with no card.
NoSavedCard(p) ==
    /\ req[p].kind \in {"admin_charge", "admin_subscription"}
    /\ \E i \in 1..Len(calls[p]) :
          /\ calls[p][i].op = "PaymentMethod.list"
          /\ calls[p][i].ok
          /\ calls[p][i].arg = 0

\* C13: in both admin operations, when the processor lists no saved card
\* for the customer, the request is answered 400 with an error, the listing
\* is the only call it has made (no PaymentIntent.create, no
\* Subscription.create, no insert) and the payments table is as it was.
C13_NoCardRejected ==
    \A p \in Procs :
        NoSavedCard(p) =>
            /\ pc[p] = "done"
            /\ resp[p] = Reply(400, "error")
            /\ Len(calls[p]) = 1
            /\ payments = pre[p].payments

\* A charge of a positive amount on a customer without a card.
C13_Witness ==
    /\ ChargeDone(1)
    /\ NoSavedCard(1)
    /\ req[1].amount > 0

---------------------------------------------------------------------------
AdminKinds == {"admin_customers", "admin_charge", "admin_subscription"}

\* C14: a request to an admin route whose token is missing, empty or not the
\* configured one is answered with the 401 page, which carries no data, has
\* made no call and has left both tables as they were; this is so whatever
\* its payload is, readable or not: the token is checked first.
C14_Unauthorized401 ==
    \A p \in Procs :
        (req[p].kind \in AdminKinds /\ req[p].cred \in Unauthorized) =>
            /\ pc[p] = "done"
            /\ resp[p] = Aborted401
            /\ calls[p] = <<>>
            /\ TablesUnchanged(p)

\* A wrong token in the header (with the right one in the query argument)
\* on a charge whose amount does not parse, the customers table not empty.
C14_Witness ==
    /\ ChargeDone(1)
    /\ req[1].cred.header \notin {None, "", ADMIN_TOKEN}
    /\ req[1].cred.query = ADMIN_TOKEN
    /\ ~req[1].parses
    /\ customers # <<>>

---------------------------------------------------------------------------
\* C15: no step of any request removes a customers row or changes one: after
\* every step, every row of the table is still there, at its place, with
\* the same internal id, email and remote customer id (an insert that
\* conflicts with a row is ignored, nothing refreshes a row).
C15_RowsKept ==
    /\ Len(customers') >= Len(customers)
    /\ \A i \in 1..Len(customers) : customers'[i] = customers[i]

C15_RowsImmutable == [][C15_RowsKept]_vars

\* While a checkout is about to insert its mapping, a webhook has synced,
\* under a fresh internal id, a remote customer that had a row: the insert
\* was ignored.
C15_Witness ==
    /\ pc[1] = "cg_save"
    /\ pc[2] = "done"
    /\ req[2].kind = "webhook"
    /\ Made(2, "save_customer_record", TRUE)
    /\ req[2].payment_intent \in 1..Len(pis)
    /\ pis[req[2].payment_intent].customer \in 1..Len(rcust)
    /\ rcust[pis[req[2].payment_intent].customer].internal_id = NULL
    /\ \E i \in 1..Len(pre[2].customers) :
          pre[2].customers[i].stripe_customer_id = pis[req[2].payment_intent].customer
    /\ customers = pre[2].customers

---------------------------------------------------------------------------
\* A call of create_or_get_customer with no email, or an empty one, that
\* has returned its pair.
NoEmailReturned(p) ==
    /\ req[p].kind = "call"
    /\ req[p].email \in {None, ""}
    /\ pc[p] = "done"
    /\ resp[p].body = "returned"

\* C16: a call of create_or_get_customer with no email (absent or empty)
\* never reuses a mapping: it has made one Customer.create call, the pair it
\* returns is that of the new remote customer, in no row the table had when
\* the call started, and is now a row; two such calls return distinct
\* remote customers and distinct internal ids; and no call, with an email
\* or without, returns the remote customer of a row that had no email.
C16_NoEmailNoReuse ==
    /\ \A p \in Procs : NoEmailReturned(p) =>
          /\ NumCalls(p, "Customer.create") = 1
          /\ Made(p, "Customer.create", TRUE)
          /\ resp[p].customer_id \in 1..Len(rcust)
          /\ rcust[resp[p].customer_id].internal_id = resp[p].internal_id
          /\ \A i \in 1..Len(pre[p].customers) :
                /\ pre[p].customers[i].stripe_customer_id # resp[p].customer_id
                /\ pre[p].customers[i].internal_id # resp[p].internal_id
          /\ \E i \in 1..Len(customers) :
                customers[i] = [internal_id |-> resp[p].internal_id,
                                email |-> req[p].email,
                                stripe_customer_id |-> resp[p].customer_id]
    /\ \A p, q \in Procs : (p # q /\ NoEmailReturned(p) /\ NoEmailReturned(q)) =>
          /\ resp[p].customer_id # resp[q].customer_id
          /\ resp[p].internal_id # resp[q].internal_id
    /\ \A p \in Procs :
          (req[p].kind = "call" /\ pc[p] = "done" /\ resp[p].body = "returned") =>
              \A i \in 1..Len(pre[p].customers) :
                  pre[p].customers[i].email \in {None, ""} =>
                      pre[p].customers[i].stripe_customer_id # resp[p].customer_id

\* Two calls with the empty email have returned, the second one started
\* when the row of the first was in the table.
C16_Witness ==
    /\ NoEmailReturned(1)
    /\ NoEmailReturned(2)
    /\ req[1].email = ""
    /\ req[2].email = ""
    /\ \E i \in 1..Len(pre[2].customers) : pre[2].customers[i].email = ""

---------------------------------------------------------------------------
\* The request has met one of the failures: a processor call of a handler
\* (all but the webhook's Customer.retrieve, which is meant to be ignored)
\* has raised, or its amount does not parse.
Failed(p) ==
    \/ \E i \in 1..Len(calls[p]) :
          /\ ~calls[p][i].ok
          /\ calls[p][i].op \in ProcessorOps \ {"Customer.retrieve"}
    \/ /\ req[p].kind = "checkout"
       /\ ~req[p].parses
    \/ /\ req[p].kind = "admin_charge"
       /\ req[p].cred \in Authorized
       /\ ~req[p].parses

\* C17: a request that has met a failure is answered with a body that
\* carries an error field and a 4xx/5xx status; no exception leaves the
\* handler.
C17_FailuresStructured ==
    \A p \in Procs :
        (pc[p] = "done" /\ Failed(p)) =>
            /\ resp[p].body \in {"error", "card_error"}
            /\ resp[p].status \in {400, 402, 500}

---------------------------------------------------------------------------
\* C18: a checkout request is never refused for its amount.  Whatever the
\* (integer) amount A of a request that passed the reCAPTCHA check, the one
\* processor request for a session it makes asks for a single line item of
\* quantity 1 with unit amount A when A > 0 and 0 otherwise (so the request
\* made for -100 is the one made for 0, and for a payload without amount);
\* the answer is the session, or the fault of a call that raised, never a
\* rejection; and the payments table is as it was.
C18_NonPositiveAsZero ==
    \A p \in Procs :
        (/\ req[p].kind = "checkout"
         /\ req[p].parses
         /\ req[p].recaptcha = "pass") =>
            /\ \A i \in 1..Len(calls[p]) :
                  calls[p][i].op = "Session.create" =>
                      calls[p][i].arg =
                          [customer_email |-> None,
                           unit_amount |-> IF req[p].amount > 0 THEN req[p].amount ELSE 0,
                           quantity |-> 1]
            /\ NumCalls(p, "Session.create") <= 1
            /\ payments = pre[p].payments
            /\ pc[p] = "done" =>
                  /\ resp[p] \in {Reply(200, "session"), Unhandled}
                  /\ resp[p] = Reply(200, "session") <=> Made(p, "Session.create", TRUE)
                  /\ resp[p] = Unhandled <=>
                        \E i \in 1..Len(calls[p]) : ~calls[p][i].ok

\* A session has been created for the amount -100.
C18_Witness ==
    /\ pc[1] = "done"
    /\ req[1].kind = "checkout"
    /\ req[1].amount = -100
    /\ Made(1, "Session.create", TRUE)
    /\ resp[1] = Reply(200, "session")

---------------------------------------------------------------------------
\* The webhook's sync step has run its insert for remote customer
\* SyncedCustomer(p).
SyncStored(p) ==
    /\ req[p].kind = "webhook"
    /\ pc[p] = "done"
    /\ Made(p, "save_customer_record", TRUE)

SyncedCustomer(p) == pis[req[p].payment_intent].customer

HasRow(tbl, C) == \E i \in 1..Len(tbl) : tbl[i].stripe_customer_id = C

\* C19: when the webhook's sync step has stored remote customer C: if the
\* table had a row for C, the table is unchanged (no second row, the row as
\* it was); otherwise one row for C is appended, with C's email, under the
\* internal id of C's metadata when it has one, else under an id that was in
\* use nowhere.  At all times no two rows have the same remote customer id.
C19_SyncKeepsOneRow ==
    /\ \A i, j \in 1..Len(customers) :
          customers[i].stripe_customer_id = customers[j].stripe_customer_id => i = j
    /\ \A p \in Procs : SyncStored(p) =>
          LET C == SyncedCustomer(p)
              old == pre[p].customers
          IN  IF HasRow(old, C)
              THEN customers = old
              ELSE /\ Len(customers) = Len(old) + 1
                   /\ SubSeq(customers, 1, Len(old)) = old
                   /\ customers[Len(customers)].stripe_customer_id = C
                   /\ customers[Len(customers)].email = rcust[C].email
                   /\ IF HasId(rcust[C].internal_id)
                      THEN customers[Len(customers)].internal_id = rcust[C].internal_id
                      ELSE /\ HasId(customers[Len(customers)].internal_id)
                           /\ \A i \in 1..Len(old) :
                                 old[i].internal_id # customers[Len(customers)].internal_id
                           /\ \A c \in 1..Len(rcust) :
                                 rcust[c].internal_id # customers[Len(customers)].internal_id

\* The sync step has stored, under the id of its metadata, a customer that
\* a checkout created and whose insert had failed.
C19_Witness ==
    /\ SyncStored(1)
    /\ HasId(rcust[SyncedCustomer(1)].internal_id)
    /\ ~HasRow(pre[1].customers, SyncedCustomer(1))
    /\ HasRow(customers, SyncedCustomer(1))

---------------------------------------------------------------------------
\* A checkout that created and stored a customer and whose Session.create
\* then raised.
SessionFailedAfterStore(p) ==
    /\ req[p].kind = "checkout"
    /\ pc[p] = "done"
    /\ Made(p, "Customer.create", TRUE)
    /\ Made(p, "save_customer_record", TRUE)
    /\ Made(p, "Session.create", FALSE)

\* C20: a checkout does not take back its reconciliation when the session
\* creation fails: the request is answered with the fault, and the remote
\* customer it created and the row it stored under its email remain; a
\* checkout for an email that has a row makes no Customer.create call and
\* leaves the customers table as it is; a checkout without email makes no
\* Customer.create call and no insert, and leaves the customers table as it
\* is.
C20_NoRollback ==
    \A p \in Procs :
        /\ SessionFailedAfterStore(p) =>
              LET C == calls[p][2].arg
              IN  /\ resp[p] = Unhandled
                  /\ C \in 1..Len(rcust)
                  /\ rcust[C].email = req[p].email
                  /\ customers = Append(pre[p].customers,
                                        [internal_id |-> rcust[C].internal_id,
                                         email |-> req[p].email,
                                         stripe_customer_id |-> C])
        /\ (/\ req[p].kind = "checkout"
            /\ req[p].email \in Emails
            /\ FirstRowByEmail(pre[p].customers, req[p].email) # 0) =>
               /\ NumCalls(p, "Customer.create") = 0
               /\ customers = pre[p].customers
        /\ (req[p].kind = "checkout" /\ req[p].email = None) =>
               /\ NumCalls(p, "Customer.create") = 0
               /\ NumCalls(p, "save_customer_record") = 0
               /\ customers = pre[p].customers

\* The session creation failed after the customer of a new email was stored,
\* next to an older row.
C20_Witness ==
    /\ SessionFailedAfterStore(1)
    /\ Len(pre[1].customers) > 0
    /\ Len(customers) = Len(pre[1].customers) + 1

===========================================================================
